---- MODULE Spec2Model ----
(***************************************************************************)
(* craft_planner.py: the rule compiler (make_checker, make_effector), the  *)
(* goal compiler (make_goal_checker), the transition generator (graph) and *)
(* the priority-first search (search), as a state machine.  One behaviour  *)
(* is one call of search on one problem instance; the instance (item       *)
(* vocabulary, initial inventory, goal, rule set, heuristic, time limit)   *)
(* is chosen in Init and never changes afterwards.                         *)
(***************************************************************************)
EXTENDS Integers, Sequences, FiniteSets

VARIABLES
    all_recipes,     \* the compiled rule set, in its fixed order (line 205)
    goal,            \* Crafting['Goal'] as the sequence of its (item, minimum) pairs
    state,           \* the initial state handed to search (lines 218-219)
    limit,           \* the time budget handed to search
    hcap,            \* the heuristic's per-item thresholds (lines 112-143)
    hest,            \* the heuristic's per-item finite estimate (the value returned at line 144)
    elapsed,         \* time() - start_time as last read by the loop condition (line 163)
    queue,           \* the heap of (priority, state) entries (line 153)
    dist,            \* line 154
    prev,            \* line 155
    actions,         \* line 156
    result,          \* line 157
    explored_states, \* line 161
    priority,        \* the priority of the entry popped last (line 164)
    current_state,   \* the state of the entry popped last (line 164)
    returned,        \* what the call has returned: "running", "result", "None", "KeyError"
    pc               \* where the call is: "loop", "Succeeded", "Exhausted", "TimedOut", "Raised"

vars == <<all_recipes, goal, state, limit, hcap, hest, elapsed, queue, dist, prev,
          actions, result, explored_states, priority, current_state, returned, pc>>

inputs == <<all_recipes, goal, state, limit, hcap, hest>>

(***************************************************************************)
(* Bounds of the model.                                                    *)
(***************************************************************************)
MaxInit == 2     \* the initial inventory holds 0..MaxInit of the raw item
MaxLimit == 2    \* the largest time limit, and the latest clock reading
MaxH == 1        \* the heuristic's finite per-unit estimates are drawn from 0..MaxH

(***************************************************************************)
(* math.inf (line 5): larger than every finite cost of the model, and      *)
(* absorbing under addition (Plus).                                        *)
(***************************************************************************)
Inf == 1000000

Plus(x, y) == IF x = Inf \/ y = Inf THEN Inf ELSE x + y

\* Python's None, as a value no state equals (no vocabulary has the item "None").
None == << <<"None", 0>> >>

(***************************************************************************)
(* State (lines 10-35): an OrderedDict, modelled as tuple(self.items()),   *)
(* the sequence of its (key, value) pairs in insertion order.              *)
(***************************************************************************)
Keys(s) == {s[i][1] : i \in DOMAIN s}

HasKey(s, item) == item \in Keys(s)

\* s[item]; the callers below decide what a missing key does.
Get(s, item) == s[CHOOSE i \in DOMAIN s : s[i][1] = item][2]

\* s[item] += n (lines 75 and 79), as the value of the object afterwards
Bump(s, item, n) ==
    [i \in DOMAIN s |-> IF s[i][1] = item THEN <<item, s[i][2] + n>> ELSE s[i]]

\* bool(state): an OrderedDict is true iff it has a key; None is false.
Truthy(s) == s # None /\ Len(s) > 0

\* __lt__ that compares the first item pair only
StateLTFirstPair(s, t) == Len(s) > 0 /\ Len(t) > 0 /\ s[1][2] < t[1][2]

\* State.__lt__ (lines 26-27): tuple comparison of the item pairs.  All states of
\* one search carry the same keys in the same order, so the first differing pair
\* differs in its value.
StateLT(s, t) ==
    \E i \in DOMAIN s :
        /\ i \in DOMAIN t
        /\ \A j \in 1..(i - 1) : s[j] = t[j]
        /\ s[i][2] < t[i][2]

(***************************************************************************)
(* Rule compiler.  A rule is the record [name, Consumes, Requires,         *)
(* Produces, cost]: Consumes and Produces are the sequences of their       *)
(* (item, amount) pairs, Requires the sequence of its items, cost the      *)
(* rule's Time (line 211).  A rule without a Consumes or Requires clause   *)
(* has the empty sequence there: the loops at lines 47 and 53 then run no  *)
(* iteration, which is what the tests at lines 46 and 52 make of a missing *)
(* clause.                                                                 *)
(***************************************************************************)

\* check without the Consumes loop of lines 46-50
checkRequiresOnly(rule, s) ==
    \A i \in DOMAIN rule.Requires : ~(Get(s, rule.Requires[i]) < 1)

\* make_checker.check (lines 43-58)
check(rule, s) ==
    /\ \A i \in DOMAIN rule.Consumes :
           ~(Get(s, rule.Consumes[i][1]) < rule.Consumes[i][2])
    /\ \A i \in DOMAIN rule.Requires :
           ~(Get(s, rule.Requires[i]) < 1)

\* the loops of lines 74-75 and 78-79: s[item] += sign * amount, pair by pair
RECURSIVE ApplyPairs(_, _, _, _)
ApplyPairs(s, pairs, i, sign) ==
    IF i > Len(pairs) THEN s
    ELSE ApplyPairs(Bump(s, pairs[i][1], sign * pairs[i][2]), pairs, i + 1, sign)

\* a copy that hands back the object it was called on
copyReturnsSelf(s) == "input"

\* State.copy (lines 29-32): the object returned is a new State, filled from s
copy(s) == "fresh"

(***************************************************************************)
(* make_effector.effect (lines 68-80).  The call sees two objects, the     *)
(* input and the State that copy creates with the input's pairs; Produces  *)
(* is added and then Consumes subtracted on the object next_state names.   *)
(* effectStore is both objects when the call returns, effect the returned  *)
(* one.                                                                    *)
(***************************************************************************)
effectStore(rule, s) ==
    LET next_state == copy(s)
        store == [input |-> s, fresh |-> s]
    IN  [store EXCEPT ![next_state] =
            ApplyPairs(ApplyPairs(@, rule.Produces, 1, 1), rule.Consumes, 1, -1)]

effect(rule, s) == effectStore(rule, s)[copy(s)]

(***************************************************************************)
(* make_goal_checker.is_goal (lines 89-95).  The items of the goal are     *)
(* visited in order; line 93 reads state[item] before it tests             *)
(* "item not in state", and a State has no default for a missing key, so   *)
(* the read of a missing key raises KeyError.  The result is "True",       *)
(* "False" or "KeyError".                                                  *)
(***************************************************************************)
RECURSIVE is_goal_from(_, _)
is_goal_from(i, s) ==
    IF i > Len(goal) THEN "True"
    ELSE IF ~HasKey(s, goal[i][1]) THEN "KeyError"
    ELSE IF Get(s, goal[i][1]) < goal[i][2] \/ ~HasKey(s, goal[i][1]) THEN "False"
    ELSE is_goal_from(i + 1, s)

is_goal(s) == is_goal_from(1, s)

(***************************************************************************)
(* graph (lines 100-106): the (name, next state, cost) triples of the      *)
(* rules whose check accepts s, in the order of all_recipes.               *)
(***************************************************************************)
\* graph without the test of line 105: a triple for every rule
RECURSIVE graphUnchecked(_, _)
graphUnchecked(i, s) ==
    IF i > Len(all_recipes) THEN <<>>
    ELSE << <<all_recipes[i].name, effect(all_recipes[i], s), all_recipes[i].cost>> >>
         \o graphUnchecked(i + 1, s)

RECURSIVE graph_from(_, _)
graph_from(i, s) ==
    IF i > Len(all_recipes) THEN <<>>
    ELSE IF check(all_recipes[i], s)
         THEN << <<all_recipes[i].name, effect(all_recipes[i], s), all_recipes[i].cost>> >>
              \o graph_from(i + 1, s)
         ELSE graph_from(i + 1, s)

graph(s) == graph_from(1, s)

(***************************************************************************)
(* heuristic (lines 109-144), the function handed to search.  The source's *)
(* body is a list of tests "if state[item] > threshold: return inf" and a  *)
(* final finite value; hcap is that list of (item, threshold) pairs and    *)
(* hest gives the finite value as a per-unit estimate for each item (all   *)
(* zero in the source, line 144).                                          *)
(***************************************************************************)
RECURSIVE EstSum(_, _)
EstSum(s, i) ==
    IF i > Len(s) THEN 0 ELSE hest[s[i][1]] * s[i][2] + EstSum(s, i + 1)

heuristic(s) ==
    IF \E i \in DOMAIN hcap : Get(s, hcap[i][1]) > hcap[i][2]
    THEN Inf
    ELSE EstSum(s, 1)

(***************************************************************************)
(* The heap (heapq, line 4).  Entries are (priority, state) tuples; tuple  *)
(* comparison orders them by priority and, at equal priority, by           *)
(* State.__lt__.  heappop returns a least entry and heappush keeps every   *)
(* entry, so the heap is modelled as the sequence of its entries in        *)
(* ascending order: heappop takes the head.                                *)
(***************************************************************************)
EntryLT(e, f) == e[1] < f[1] \/ (e[1] = f[1] /\ StateLT(e[2], f[2]))

\* heappush that drops an entry of infinite priority
heappushFinite(q, e) ==
    IF e[1] = Inf THEN q
    ELSE LET k == Cardinality({i \in DOMAIN q : ~EntryLT(e, q[i])})
         IN  SubSeq(q, 1, k) \o <<e>> \o SubSeq(q, k + 1, Len(q))

heappush(q, e) ==
    LET k == Cardinality({i \in DOMAIN q : ~EntryLT(e, q[i])})
    IN  SubSeq(q, 1, k) \o <<e>> \o SubSeq(q, k + 1, Len(q))

(***************************************************************************)
(* search, lines 172-179: the loop over graph(current_state).  w is the    *)
(* record of what the loop has written so far; succ is the sequence        *)
(* graph(current_state) and i the position in it.                          *)
(***************************************************************************)

\* line 174
NewCost(p, cost) == Plus(p, cost)

\* line 175 without its second disjunct: a recorded cost is never lowered
ImprovesOnlyWhenNew(d, next_state, new_cost) == next_state \notin DOMAIN d

\* line 175 without its test: every candidate replaces the record
ImprovesAlways(d, next_state, new_cost) == TRUE

\* line 175 with <= for <: an equal cost replaces the record
ImprovesOrEqual(d, next_state, new_cost) ==
    next_state \notin DOMAIN d \/ new_cost <= d[next_state]

\* line 175
Improves(d, next_state, new_cost) ==
    next_state \notin DOMAIN d \/ new_cost < d[next_state]

\* line 179 without the heuristic: the priority is the cost alone
PushPriorityCostOnly(new_cost, next_state) == new_cost

\* line 179: the priority of the pushed entry
PushPriority(new_cost, next_state) == Plus(new_cost, heuristic(next_state))

\* d[k] = v on a dict
Put(d, k, v) == [x \in DOMAIN d \cup {k} |-> IF x = k THEN v ELSE d[x]]

RECURSIVE Relax(_, _, _, _, _)
Relax(w, succ, i, p, cs) ==
    IF i > Len(succ) THEN w
    ELSE LET action == succ[i][1]
             next_state == succ[i][2]
             new_cost == NewCost(p, succ[i][3])
             seen == [w EXCEPT !.explored_states = @ + 1]
         IN  IF Improves(w.dist, next_state, new_cost)
             THEN Relax([seen EXCEPT
                            !.dist = Put(@, next_state, new_cost),
                            !.prev = Put(@, next_state, cs),
                            !.actions = Put(@, next_state, action),
                            !.queue = heappush(@, <<PushPriority(new_cost, next_state),
                                                    next_state>>)],
                        succ, i + 1, p, cs)
             ELSE Relax(seen, succ, i + 1, p, cs)

(***************************************************************************)
(* search, lines 166-169: the path from cs back along prev, then reversed. *)
(* The loop runs while the state is true (bool(state)), not while it is    *)
(* not None.                                                               *)
(***************************************************************************)
RECURSIVE Backward(_)
Backward(cs) ==
    IF ~Truthy(cs) THEN <<>>
    ELSE << <<cs, actions[cs]>> >> \o Backward(prev[cs])

Reverse(s) == [i \in 1..Len(s) |-> s[Len(s) + 1 - i]]

Reconstruct(cs) == Reverse(Backward(cs))

(***************************************************************************)
(* The problem instances (what __main__, lines 187-222, reads from         *)
(* Crafting.json and hands to search).  Every rule of an instance names    *)
(* only items of the vocabulary, and conserves the total quantity, so the  *)
(* reachable state graph is finite.                                        *)
(***************************************************************************)
AllItems == <<"a", "b", "g">>

Pool ==
    << [name |-> "a_to_b", Consumes |-> << <<"a", 1>> >>, Requires |-> <<>>,
        Produces |-> << <<"b", 1>> >>, cost |-> 1],
       [name |-> "b_to_g", Consumes |-> << <<"b", 1>> >>, Requires |-> <<>>,
        Produces |-> << <<"g", 1>> >>, cost |-> 1],
       [name |-> "a_to_g", Consumes |-> << <<"a", 1>> >>, Requires |-> <<>>,
        Produces |-> << <<"g", 1>> >>, cost |-> 3],
       [name |-> "b_to_a", Consumes |-> << <<"b", 1>> >>, Requires |-> <<"a">>,
        Produces |-> << <<"a", 1>> >>, cost |-> 0],
       [name |-> "refine", Consumes |-> << <<"a", 2>> >>, Requires |-> <<>>,
        Produces |-> << <<"a", 1>>, <<"g", 1>> >>, cost |-> 1] >>

\* the rules of Pool at the positions in mask, in Pool's order (lines 205-212)
RECURSIVE Pick(_, _)
Pick(mask, i) ==
    IF i > Len(Pool) THEN <<>>
    ELSE (IF i \in mask THEN <<Pool[i]>> ELSE <<>>) \o Pick(mask, i + 1)

\* lines 218-219: every item of the vocabulary at 0, then the initial inventory
InitialState(items, initial) ==
    ApplyPairs([i \in DOMAIN items |-> <<items[i], 0>>], initial, 1, 1)

Goals ==
    { <<>>,
      << <<"g", 1>> >>,
      << <<"g", 2>> >>,
      << <<"b", 1>>, <<"g", 1>> >>,
      << <<"g", 1>>, <<"z", 1>> >> }

\* a negative limit, 0, and a limit the clock can stay below or reach
Limits == {-1, 0, MaxLimit}

ItemSet == {AllItems[i] : i \in DOMAIN AllItems}

NoEstimate == [x \in ItemSet |-> 0]

\* the heuristics: at most one threshold test and no estimate (the source's
\* shape), or no test and any per-unit estimates
Heuristics ==
    {<< <<>>, e >> : e \in [ItemSet -> 0..MaxH]}
    \cup {<< << <<x, c>> >>, NoEstimate >> : x \in ItemSet, c \in 0..1}

\* lines 148-161
SearchInit ==
    /\ elapsed = 0
    /\ queue = << <<0, state>> >>
    /\ dist = [s \in {state} |-> 0]
    /\ prev = [s \in {state} |-> None]
    /\ actions = [s \in {state} |-> "None"]
    /\ result = <<>>
    /\ explored_states = 0
    /\ priority = 0
    /\ current_state = None
    /\ returned = "running"
    /\ pc = "loop"

Init ==
    /\ \/ \* the full vocabulary
          /\ \E mask \in SUBSET (DOMAIN Pool) : all_recipes = Pick(mask, 1)
          /\ \E n \in 0..MaxInit : state = InitialState(AllItems, << <<"a", n>> >>)
          /\ goal \in Goals
          /\ \E h \in Heuristics : hcap = h[1] /\ hest = h[2]
       \/ \* the empty vocabulary: no rule can name an item
          /\ all_recipes = <<>>
          /\ state = InitialState(<<>>, <<>>)
          /\ goal \in {<<>>, << <<"g", 1>> >>}
          /\ hcap = <<>> /\ hest = NoEstimate
    /\ limit \in Limits
    /\ SearchInit

(***************************************************************************)
(* The loop of search (lines 163-185).  Each action is one evaluation of   *)
(* the loop condition and what follows from it.  The condition reads the   *)
(* clock only when the queue is not empty ("and" short-circuits); the      *)
(* clock never runs backwards and is read as t.                            *)
(***************************************************************************)
Tick == {elapsed} \cup (IF elapsed < MaxLimit THEN {elapsed + 1} ELSE {})

\* line 164 without the budget test of line 163 before it
PopIgnoringLimit(t) ==
    /\ pc = "loop"
    /\ queue # <<>>
    /\ t \in Tick
    /\ elapsed' = t
    /\ priority' = Head(queue)[1]
    /\ current_state' = Head(queue)[2]

\* line 163 is true with the clock at t; line 164 pops
Pop(t) ==
    /\ pc = "loop"
    /\ queue # <<>>
    /\ t \in Tick
    /\ t < limit
    /\ elapsed' = t
    /\ priority' = Head(queue)[1]
    /\ current_state' = Head(queue)[2]

\* lines 165-171: the popped state satisfies the goal
Succeed ==
    \E t \in Tick :
        /\ Pop(t)
        /\ is_goal(Head(queue)[2]) = "True"
        /\ queue' = Tail(queue)
        /\ result' = Reconstruct(Head(queue)[2])
        /\ returned' = "result"
        /\ pc' = "Succeeded"
        /\ UNCHANGED <<inputs, dist, prev, actions, explored_states>>

\* lines 165, 172-179: it does not; its successors are relaxed
Expand ==
    \E t \in Tick :
        /\ Pop(t)
        /\ is_goal(Head(queue)[2]) = "False"
        /\ LET w == Relax([queue |-> Tail(queue), dist |-> dist, prev |-> prev,
                           actions |-> actions, explored_states |-> explored_states],
                          graph(Head(queue)[2]), 1, Head(queue)[1], Head(queue)[2])
           IN  /\ queue' = w.queue
               /\ dist' = w.dist
               /\ prev' = w.prev
               /\ actions' = w.actions
               /\ explored_states' = w.explored_states
        /\ UNCHANGED <<inputs, result, returned, pc>>

\* line 165 (line 93): is_goal raises KeyError, which search does not catch
Raise ==
    \E t \in Tick :
        /\ Pop(t)
        /\ is_goal(Head(queue)[2]) = "KeyError"
        /\ queue' = Tail(queue)
        /\ returned' = "KeyError"
        /\ pc' = "Raised"
        /\ UNCHANGED <<inputs, dist, prev, actions, result, explored_states>>

\* line 185, reached when the queue is empty, if it returned a value of its own
ExhaustedSentinel == "Exhausted"

\* line 185, reached when the queue is empty
ExhaustedReturn == "None"

\* line 185, reached when the limit is reached
TimedOutReturn == "None"

\* line 163 is false because the queue is empty; lines 183-185
Exhaust ==
    /\ pc = "loop"
    /\ queue = <<>>
    /\ returned' = ExhaustedReturn
    /\ pc' = "Exhausted"
    /\ UNCHANGED <<inputs, elapsed, queue, dist, prev, actions, result,
                   explored_states, priority, current_state>>

\* line 163 is false because the limit is reached; lines 183-185
TimeOut ==
    \E t \in Tick :
        /\ pc = "loop"
        /\ queue # <<>>
        /\ ~(t < limit)
        /\ elapsed' = t
        /\ returned' = TimedOutReturn
        /\ pc' = "TimedOut"
        /\ UNCHANGED <<inputs, queue, dist, prev, actions, result,
                       explored_states, priority, current_state>>

Next == Succeed \/ Expand \/ Raise \/ Exhaust \/ TimeOut

Spec == Init /\ [][Next]_vars

\* the calls whose heuristic is the source's own (line 144: no test, returns 0)
FairInit == Init /\ hcap = <<>> /\ hest = NoEstimate

\* search is one thread that runs its loop to the end (lines 163-185): a step
\* that can be taken is taken
FairSpec == FairInit /\ [][Next]_vars /\ WF_vars(Next)

(***************************************************************************)
(* Reference notions the properties are stated against.  They are defined  *)
(* on the state graph that graph induces from the initial state, not on    *)
(* what search records.                                                    *)
(***************************************************************************)
Successors(s) == {graph(s)[i] : i \in DOMAIN graph(s)}

RECURSIVE ReachFrom(_)
ReachFrom(S) ==
    LET N == S \cup UNION {{e[2] : e \in Successors(s)} : s \in S}
    IN  IF N = S THEN S ELSE ReachFrom(N)

\* every state some sequence of feasible rule applications leads to
Reachable == ReachFrom({state})

IsGoalState(s) == is_goal(s) = "True"

Min(S) == CHOOSE x \in S : \A y \in S : x <= y

\* least total cost of a rule sequence from s to a goal state (Inf: there is none),
\* as the fixed point of h[s] = 0 at a goal, min over edges of cost + h[next] elsewhere
RECURSIVE RemainingFix(_, _)
RemainingFix(R, h) ==
    LET h2 == [s \in R |->
                  IF IsGoalState(s) THEN 0
                  ELSE Min({h[s]} \cup {Plus(e[3], h[e[2]]) : e \in Successors(s)})]
    IN  IF h2 = h THEN h ELSE RemainingFix(R, h2)

Remaining == RemainingFix(Reachable, [s \in Reachable |-> Inf])

\* the minimum total cost from the initial state to any goal state
OptimalCost == Remaining[state]

\* the Time of the rule with this name (Crafting['Recipes'][action]['Time'], line 228)
TimeOf(action) ==
    all_recipes[CHOOSE i \in DOMAIN all_recipes : all_recipes[i].name = action].cost

\* lines 223-228: the sum of the Time of every action of the plan
RECURSIVE PlanCost(_, _)
PlanCost(plan, i) ==
    IF i > Len(plan) THEN 0
    ELSE (IF plan[i][2] # "None" THEN TimeOf(plan[i][2]) ELSE 0) + PlanCost(plan, i + 1)

ZeroHeuristic == \A s \in Reachable : heuristic(s) = 0

Admissible ==
    LET r == Remaining
    IN  \A s \in DOMAIN r : 0 <= heuristic(s) /\ heuristic(s) <= r[s]

(***************************************************************************)
(* C1.  With a heuristic that is 0 on every state (and the non-negative    *)
(* rule costs of every instance), a path that search returns has the       *)
(* minimum total cost over all rule sequences from the initial state to a  *)
(* goal state.                                                             *)
(***************************************************************************)
C1_UniformCostOptimal ==
    (pc = "Succeeded" /\ ZeroHeuristic) => PlanCost(result, 1) = OptimalCost

\* a run that returned the cost-2 route a_to_b, b_to_g although the cost-3 rule
\* a_to_g reaches the goal in one step
C1_Witness ==
    /\ pc = "Succeeded"
    /\ ZeroHeuristic
    /\ Len(result) = 3
    /\ PlanCost(result, 1) = 2
    /\ \E i \in DOMAIN all_recipes : all_recipes[i].name = "a_to_g"
    /\ goal = << <<"g", 1>> >>

(***************************************************************************)
(* C2.  With an admissible heuristic (0 <= h(s) <= the least remaining     *)
(* cost from s, for every reachable s), a path that search returns has the *)
(* minimum total cost.                                                     *)
(***************************************************************************)
C2_AdmissibleOptimal ==
    (pc = "Succeeded" /\ Admissible) => PlanCost(result, 1) = OptimalCost

(***************************************************************************)
(* C3.  Every path search returns is a valid plan: it starts with          *)
(* (initial state, no action), ends in a goal state, and each step is the  *)
(* named rule, feasible in the state before it and mapping it exactly to   *)
(* the state after it.                                                     *)
(***************************************************************************)
StepValid(before, after) ==
    \E i \in DOMAIN all_recipes :
        /\ all_recipes[i].name = after[2]
        /\ check(all_recipes[i], before[1])
        /\ effect(all_recipes[i], before[1]) = after[1]

ValidPlan(plan) ==
    /\ Len(plan) >= 1
    /\ plan[1] = <<state, "None">>
    /\ IsGoalState(plan[Len(plan)][1])
    /\ \A i \in 1..(Len(plan) - 1) : StepValid(plan[i], plan[i + 1])

C3_ReturnedPlanValid == pc = "Succeeded" => ValidPlan(result)

(***************************************************************************)
(* C4.  When the initial state satisfies the goal and the budget is not    *)
(* used up, search returns the one-element path [(initial state, no        *)
(* action)], of cost 0, and applies no rule.                               *)
(***************************************************************************)
C4_InitialGoalPlan ==
    (IsGoalState(state) /\ pc \notin {"loop", "TimedOut"}) =>
        /\ pc = "Succeeded"
        /\ result = << <<state, "None">> >>
        /\ PlanCost(result, 1) = 0
        /\ explored_states = 0

(***************************************************************************)
(* C5.  With a time budget of 0 or less, search ends in the failure        *)
(* outcome without popping, goal-testing or expanding anything, also when  *)
(* the initial state satisfies the goal; and no success comes from an      *)
(* iteration whose clock reading is at or after the limit.                 *)
(***************************************************************************)
C5_NoBudgetNoPop ==
    /\ limit <= 0 =>
          /\ pc \in {"loop", "TimedOut"}
          /\ pc = "loop" => ENABLED TimeOut
          /\ queue = << <<0, state>> >>
          /\ current_state = None
          /\ DOMAIN dist = {state}
          /\ explored_states = 0
          /\ result = <<>>
          /\ returned \in {"running", "None"}
    /\ pc = "Succeeded" => elapsed < limit

C5_Witness == limit <= 0 /\ pc = "TimedOut" /\ IsGoalState(state) /\ returned = "None"

(***************************************************************************)
(* C6.  The goal predicate is true iff every goal item is in the state     *)
(* with at least the required quantity, and false (not an error) when a    *)
(* goal item is not a key of the state.  Stated of every state search      *)
(* hands to is_goal.                                                       *)
(***************************************************************************)
GoalMet(s) ==
    \A i \in DOMAIN goal : HasKey(s, goal[i][1]) /\ Get(s, goal[i][1]) >= goal[i][2]

C6_GoalPredicateTotal ==
    current_state # None =>
        is_goal(current_state) = (IF GoalMet(current_state) THEN "True" ELSE "False")

(***************************************************************************)
(* C7.  A state whose heuristic value is infinite is never popped while    *)
(* the frontier holds another entry of finite priority; and when some path *)
(* from the initial state to a goal state visits only states of finite     *)
(* heuristic value, no state of infinite heuristic value is on a returned  *)
(* path.                                                                   *)
(***************************************************************************)
FiniteH(s) == heuristic(s) < Inf

RECURSIVE FiniteReachFrom(_)
FiniteReachFrom(S) ==
    LET N == S \cup UNION {{e[2] : e \in {f \in Successors(s) : FiniteH(f[2])}} : s \in S}
    IN  IF N = S THEN S ELSE FiniteReachFrom(N)

\* some path to a goal state visits only states of finite heuristic value
FiniteGoalPath ==
    /\ FiniteH(state)
    /\ \E s \in FiniteReachFrom({state}) : IsGoalState(s)

C7_PoppedInfiniteLast ==
    (pc = "loop" /\ queue # <<>> /\ pc' # "TimedOut" /\ ~FiniteH(Head(queue)[2]))
        => \A i \in 2..Len(queue) : queue[i][1] = Inf

C7_NoInfiniteOnPath ==
    (pc = "Succeeded" /\ FiniteGoalPath) => \A i \in DOMAIN result : FiniteH(result[i][1])

C7_InfinitePruning == [][C7_PoppedInfiniteLast]_vars /\ []C7_NoInfiniteOnPath

\* a plan was returned although a discovered state of infinite heuristic value has
\* a goal state as a successor
C7_Witness ==
    /\ pc = "Succeeded"
    /\ FiniteGoalPath
    /\ Len(result) >= 2
    /\ \E s \in DOMAIN dist :
           ~FiniteH(s) /\ \E e \in Successors(s) : IsGoalState(e[2])

(***************************************************************************)
(* C8.  When search ends because the frontier is empty, no goal state is   *)
(* reachable from the initial state: every reachable state has been        *)
(* discovered (and so pushed and popped), whatever the heuristic.          *)
(***************************************************************************)
C8_ExhaustedMeansNoGoal ==
    pc = "Exhausted" =>
        /\ \A s \in Reachable : ~IsGoalState(s)
        /\ DOMAIN dist = Reachable

\* exhaustion of a graph of several states, one of them of infinite heuristic value
C8_Witness ==
    /\ pc = "Exhausted"
    /\ Cardinality(Reachable) >= 3
    /\ \E s \in Reachable : ~FiniteH(s)

(***************************************************************************)
(* C9.  The outcome reported at TimedOut can be told from the outcome      *)
(* reported at Exhausted, and both carry no plan.                          *)
(***************************************************************************)
C9_Distinguishable ==
    /\ pc \in {"Exhausted", "TimedOut"} => result = <<>>
    /\ pc = "Exhausted" => returned # TimedOutReturn
    /\ pc = "TimedOut" => returned # ExhaustedReturn

\* C9 as amended: both outcomes carry no plan and are reported the same way,
\* by returning None.
C9_SameFailureReturn ==
    pc \in {"Exhausted", "TimedOut"} => (result = <<>> /\ returned = "None")

C9_Witness ==
    /\ pc = "Exhausted"
    /\ returned = "None"
    /\ explored_states > 0
    /\ elapsed < limit

(***************************************************************************)
(* C10.  Every state search records or pushes has only non-negative        *)
(* quantities; and for every rule and every recorded state its check       *)
(* accepts, the effect leaves every consumed item non-negative.            *)
(***************************************************************************)
NonNegative(s) == \A i \in DOMAIN s : s[i][2] >= 0

C10_NonNegativeStates ==
    /\ \A s \in DOMAIN dist :
           /\ NonNegative(s)
           /\ \A i \in DOMAIN all_recipes :
                  check(all_recipes[i], s) =>
                      \A j \in DOMAIN all_recipes[i].Consumes :
                          Get(effect(all_recipes[i], s), all_recipes[i].Consumes[j][1]) >= 0
    /\ \A i \in DOMAIN queue : NonNegative(queue[i][2])

\* a state was recorded through the rule that produces and consumes the same item
C10_Witness ==
    \E s \in DOMAIN dist : actions[s] = "refine" /\ NonNegative(s)

(***************************************************************************)
(* C11.  Below the time limit search is deterministic: with the same       *)
(* inputs it pops the same states in the same order and returns the same   *)
(* path, because entries of equal priority are ordered by the total order  *)
(* on states.  In Next the only choice besides the clock reading is which  *)
(* least entry heappop returns, so the claim is that any two entries of    *)
(* the frontier are the same entry or strictly ordered one way: the entry  *)
(* popped, and with it the whole run, is determined by the inputs.         *)
(***************************************************************************)
StrictlyOrdered(e, f) ==
    \/ e = f
    \/ EntryLT(e, f) /\ ~EntryLT(f, e)
    \/ EntryLT(f, e) /\ ~EntryLT(e, f)

C11_UniqueLeastEntry ==
    /\ \A i, j \in DOMAIN queue : StrictlyOrdered(queue[i], queue[j])
    /\ \A i \in DOMAIN queue : i > 1 =>
           (queue[i] = queue[1] \/ EntryLT(queue[1], queue[i]))
    /\ \A s, u \in DOMAIN dist : s = u \/ StateLT(s, u) \/ StateLT(u, s)

\* two entries of equal priority and different states wait in the frontier
C11_Witness ==
    \E i, j \in DOMAIN queue :
        /\ queue[i][1] = queue[j][1]
        /\ queue[i][2] # queue[j][2]
        /\ queue[i][2][1] = queue[j][2][1]

(***************************************************************************)
(* C12.  The candidate cost of a successor is the cost recorded for the    *)
(* popped state plus the rule's cost, without the popped state's heuristic *)
(* value; so the cost recorded for every discovered state is the sum of    *)
(* the Time costs along its predecessor chain, for any heuristic.          *)
(***************************************************************************)
\* the sum of the Time costs along the predecessor chain of s; n bounds its length
RECURSIVE ChainCost(_, _)
ChainCost(s, n) ==
    IF n = 0 \/ prev[s] = None THEN 0
    ELSE TimeOf(actions[s]) + ChainCost(prev[s], n - 1)

C12_RecordedCostIsChainCost ==
    \A s \in DOMAIN dist : dist[s] = ChainCost(s, Cardinality(DOMAIN dist))

(***************************************************************************)
(* C13.  A popped entry that is stale (its state has since been recorded,  *)
(* pushed and popped at a lower cost) is skipped: the state is not         *)
(* expanded again.  An entry is pushed with priority recorded cost +       *)
(* heuristic (line 179) and a record only changes together with a push of  *)
(* a lower entry, so the head entry is stale iff its priority exceeds what *)
(* the present record gives.  explored_states counts the successors        *)
(* generated (line 173).                                                   *)
(***************************************************************************)
Stale(e) ==
    /\ e[2] # state
    /\ e[1] > PushPriority(dist[e[2]], e[2])

C13_StaleEntrySkipped ==
    [][(pc = "loop" /\ queue # <<>> /\ pc' # "TimedOut" /\ Stale(Head(queue)))
           => explored_states' = explored_states]_vars

Rewritten(s) ==
    \/ s \notin DOMAIN dist
    \/ <<dist'[s], prev'[s], actions'[s]>> # <<dist[s], prev[s], actions[s]>>

\* this step is an expansion of the head entry's state
ExpandStep == pc = "loop" /\ queue # <<>> /\ pc' = "loop" /\ queue' # queue

C15_Body ==
    LET cs == Head(queue)[2]
        candidate(e) == NewCost(Head(queue)[1], e[3])
    IN  /\ \A s \in DOMAIN dist : s \in DOMAIN dist' /\ dist'[s] <= dist[s]
        /\ DOMAIN prev' = DOMAIN dist' /\ DOMAIN actions' = DOMAIN dist'
        /\ \A s \in DOMAIN dist' :
               Rewritten(s) =>
                   /\ s \in DOMAIN dist => dist'[s] < dist[s]
                   /\ prev'[s] = cs
                   /\ \E e \in Successors(cs) :
                          e[2] = s /\ e[1] = actions'[s] /\ dist'[s] = candidate(e)
                   /\ \E i \in DOMAIN queue' :
                          queue'[i] = <<Plus(dist'[s], heuristic(s)), s>>
        /\ \A e \in Successors(cs) :
               /\ e[2] \in DOMAIN dist'
               /\ dist'[e[2]] <= candidate(e)
               /\ (e[2] \notin DOMAIN dist \/ candidate(e) < dist[e[2]]) => Rewritten(e[2])
        /\ \A i \in DOMAIN queue' :
               \/ \E j \in 2..Len(queue) : queue[j] = queue'[i]
               \/ Rewritten(queue'[i][2])

C15_RecordUpdate == [][ExpandStep => C15_Body]_vars

\* the expansion of the state popped last lowered a record that was already on
\* the frontier: the frontier holds the old entry and the new one
C15_Witness ==
    /\ pc = "loop"
    /\ current_state # None
    /\ \E i, j \in DOMAIN queue :
           /\ queue[i][2] = queue[j][2]
           /\ queue[j][1] < queue[i][1]
           /\ prev[queue[i][2]] = current_state
           /\ queue[j][1] = PushPriority(dist[queue[i][2]], queue[i][2])

(***************************************************************************)
(* C16.  The effect of a rule returns a state with the input's keys in     *)
(* which every item has the input quantity plus the rule's Produces amount *)
(* minus its Consumes amount, and leaves the input as it was; the states   *)
(* stored in the frontier, the cost map and the predecessor map are not    *)
(* modified by an expansion.                                               *)
(***************************************************************************)
\* the amount a clause holds for an item, 0 when it does not name the item
Amount(pairs, item) ==
    IF \E i \in DOMAIN pairs : pairs[i][1] = item
    THEN pairs[CHOOSE i \in DOMAIN pairs : pairs[i][1] = item][2]
    ELSE 0

C16_EffectOf(rule, s) ==
    LET out == effectStore(rule, s)
        next_state == effect(rule, s)
    IN  /\ out.input = s
        /\ Len(next_state) = Len(s)
        /\ \A i \in DOMAIN s :
               /\ next_state[i][1] = s[i][1]
               /\ next_state[i][2] = s[i][2] + Amount(rule.Produces, s[i][1])
                                             - Amount(rule.Consumes, s[i][1])

C16_Body ==
    LET cs == Head(queue)[2]
    IN  /\ \A i \in DOMAIN all_recipes :
               check(all_recipes[i], cs) =>
                   /\ C16_EffectOf(all_recipes[i], cs)
                   /\ effect(all_recipes[i], cs) \in DOMAIN dist'
        /\ cs \in DOMAIN dist'
        /\ DOMAIN dist \subseteq DOMAIN dist'
        /\ \A s \in DOMAIN prev : prev'[s] \in {prev[s], cs}
        /\ \A j \in 2..Len(queue) : \E i \in DOMAIN queue' : queue'[i] = queue[j]

C16_EffectFrame == [][ExpandStep => C16_Body]_vars

\* a state produced by a rule that both consumes and produces is recorded, and
\* its input is still the recorded predecessor
C16_Witness ==
    \E s \in DOMAIN dist : \E i \in DOMAIN all_recipes :
        /\ prev[s] # None
        /\ prev[s] \in DOMAIN dist
        /\ actions[s] = all_recipes[i].name
        /\ all_recipes[i].Consumes # <<>>
        /\ effect(all_recipes[i], prev[s]) = s
        /\ s # prev[s]

(***************************************************************************)
(* C17.  For the state being expanded, graph yields exactly one triple     *)
(* (name, effect(state), cost) for each rule whose feasibility predicate   *)
(* accepts the state (every Consumes item has at least the consumed        *)
(* amount, every Requires item at least 1), none for any other rule, in    *)
(* the order of the rule set; no effect is applied to a rejected state.    *)
(***************************************************************************)
Feasible(rule, s) ==
    /\ \A i \in DOMAIN rule.Consumes : Get(s, rule.Consumes[i][1]) >= rule.Consumes[i][2]
    /\ \A i \in DOMAIN rule.Requires : Get(s, rule.Requires[i]) >= 1

FeasibleRules(s) == SelectSeq(all_recipes, LAMBDA rule : Feasible(rule, s))

C17_Body ==
    LET cs == Head(queue)[2]
        accepted == FeasibleRules(cs)
        triples == graph(cs)
    IN  /\ Len(triples) = Len(accepted)
        /\ \A i \in DOMAIN triples :
               triples[i] = <<accepted[i].name, effect(accepted[i], cs), accepted[i].cost>>
        /\ explored_states' = explored_states + Len(accepted)
        /\ \A s \in DOMAIN dist' :
               s \notin DOMAIN dist =>
                   \E i \in DOMAIN accepted :
                       s = effect(accepted[i], cs) /\ actions'[s] = accepted[i].name

C17_GraphExact == [][ExpandStep => C17_Body]_vars

\* the state popped last was expanded; it was accepted by two rules at least and
\* rejected by one that stands between them in the rule set
C17_Witness ==
    /\ pc = "loop"
    /\ current_state # None
    /\ explored_states >= 2
    /\ \E i, j, k \in DOMAIN all_recipes :
           /\ i < j /\ j < k
           /\ Feasible(all_recipes[i], current_state)
           /\ ~Feasible(all_recipes[j], current_state)
           /\ Feasible(all_recipes[k], current_state)
           /\ effect(all_recipes[i], current_state) \in DOMAIN dist
           /\ effect(all_recipes[k], current_state) \in DOMAIN dist

(***************************************************************************)
(* C18.  Every run of search eventually reaches one of the outcomes        *)
(* Succeeded, Exhausted and TimedOut and never leaves it.                  *)
(***************************************************************************)
C18_ThreeOutcomes == <>[](pc \in {"Succeeded", "Exhausted", "TimedOut"})

(***************************************************************************)
(* C19.  With non-negative rule costs and a heuristic with values in       *)
(* [0, infinity], the initial state's record stays (cost 0, no             *)
(* predecessor, no action) and the predecessor links form a cycle-free     *)
(* forest rooted at the initial state: from every discovered state the     *)
(* links lead to the initial state in at most as many steps as there are   *)
(* records, so the reconstruction loop ends and its path is no longer than *)
(* that.                                                                   *)
(***************************************************************************)
RECURSIVE RootedWithin(_, _)
RootedWithin(s, n) ==
    \/ s = state
    \/ /\ n > 0
       /\ prev[s] # None
       /\ prev[s] \in DOMAIN dist
       /\ actions[s] # "None"
       /\ RootedWithin(prev[s], n - 1)

C19_PredecessorForest ==
    /\ state \in DOMAIN dist
    /\ dist[state] = 0
    /\ prev[state] = None
    /\ actions[state] = "None"
    /\ DOMAIN prev = DOMAIN dist
    /\ \A s \in DOMAIN dist : RootedWithin(s, Cardinality(DOMAIN dist) - 1)
    /\ pc = "Succeeded" => Len(result) <= Cardinality(DOMAIN dist)

\* a state that has the initial state among its successors was expanded, and a
\* returned path followed three links
C19_Witness ==
    /\ pc = "Succeeded"
    /\ Len(result) >= 4
    /\ \E s \in DOMAIN dist :
           /\ s # state
           /\ prev[s] # None
           /\ \E e \in Successors(s) : e[2] = state
           /\ \E u \in DOMAIN dist : prev[u] = s

====
